---- MODULE Spec2Model ----
(***************************************************************************)
(* Model of axum-keycloak-auth's token handling: src/decode.rs (header     *)
(* extraction, claims normalisation, the typed token, role extraction,     *)
(* expiry and role checks) and src/error.rs (AuthError and its response).  *)
(*                                                                         *)
(* Byte strings are sequences of byte values.  Formatted messages are      *)
(* sequences of fragments: the literal pieces of the format string and the *)
(* interpolated values, in order (an error's reason is such a sequence).   *)
(* A 64-bit integer is three base-10^9 limbs <<e18, e9, e0>> (the value   *)
(* e18*10^18 + e9*10^9 + e0, with e9 and e0 in 0 .. 10^9-1), compared      *)
(* lexicographically.                                                      *)
(***************************************************************************)
EXTENDS Integers, Sequences, FiniteSets, TLC

VARIABLES pc, debug_assertions, role_impl, headers, raw_token, raw_claims,
          claims, token, now, call, result, err, response

vars == <<pc, debug_assertions, role_impl, headers, raw_token, raw_claims,
          claims, token, now, call, result, err, response>>

\* ------------------------------------------------------------------ bounds
MaxTokenLen == 1
MaxHeaders == 2
MaxRoles == 2
MaxArgs == 2
MaxAud == 2

SeqsUpTo(S, n) == UNION {[1..k -> S] : k \in 0..n}

Range(s) == {s[i] : i \in DOMAIN s}

\* ------------------------------------------------------------- error.rs
AuthErrorKinds ==
    {"MissingAuthorizationHeader", "InvalidAuthorizationHeader", "MissingBearerToken",
     "CreateDecodingKey", "DecodeHeader", "Decode", "JsonParse", "TokenExpired",
     "InvalidToken", "MissingExpectedRole", "UnexpectedRole"}

AuthError(kind, reason, source, role) ==
    [kind |-> kind, reason |-> reason, source |-> source, role |-> role]

NoErr == AuthError("None", <<>>, "", "")

\* #[snafu(display(...))]: the message of each kind, as format fragments.
to_string(e) ==
    CASE e.kind = "MissingAuthorizationHeader" ->
            <<"The 'Authorization' header was not present on a request.">>
      [] e.kind = "InvalidAuthorizationHeader" ->
            <<"The 'Authorization' header was present on a request but its value could not be parsed. Reason: ">> \o e.reason
      [] e.kind = "MissingBearerToken" ->
            <<"The 'Authorization' header did not contain the expected 'Bearer ...token' format.">>
      [] e.kind = "CreateDecodingKey" ->
            <<"The DecodingKey, required for decoding tokens, could not be created. Source: ", e.source>>
      [] e.kind = "DecodeHeader" ->
            <<"The JWT header could not be decoded. Source: ", e.source>>
      [] e.kind = "Decode" ->
            <<"The JWT could not be decoded. Source: ", e.source>>
      [] e.kind = "JsonParse" ->
            <<"Parts of the JWT could not be parsed. Source: ", e.source>>
      [] e.kind = "TokenExpired" ->
            <<"The tokens lifetime is expired.">>
      [] e.kind = "InvalidToken" ->
            <<"For a not further known reason, the token was deemed invalid: Reason: ">> \o e.reason
      [] e.kind = "MissingExpectedRole" ->
            <<"An expected role (omitted for security reasons) was missing.">>
      [] e.kind = "UnexpectedRole" ->
            <<"An unexpected role was present.">>

BAD_REQUEST == 400
UNAUTHORIZED == 401
INTERNAL_SERVER_ERROR == 500

Response(status, error_message) == [status |-> status, body |-> [error |-> error_message]]

NoResponse == Response(0, <<>>)

\* A variant of StatusOf that answers 401 to an invalid token.
StatusOfInvalidTokenUnauthorized(e) ==
    CASE e.kind \in {"MissingAuthorizationHeader", "InvalidAuthorizationHeader",
                     "MissingBearerToken"} -> BAD_REQUEST
      [] e.kind = "CreateDecodingKey" -> INTERNAL_SERVER_ERROR
      [] OTHER -> UNAUTHORIZED

\* into_response: the status of the match arm of each kind.
StatusOf(e) ==
    CASE e.kind = "MissingAuthorizationHeader" -> BAD_REQUEST
      [] e.kind = "InvalidAuthorizationHeader" -> BAD_REQUEST
      [] e.kind = "MissingBearerToken" -> BAD_REQUEST
      [] e.kind = "CreateDecodingKey" -> INTERNAL_SERVER_ERROR
      [] e.kind = "DecodeHeader" -> UNAUTHORIZED
      [] e.kind = "Decode" -> UNAUTHORIZED
      [] e.kind = "JsonParse" -> UNAUTHORIZED
      [] e.kind = "TokenExpired" -> UNAUTHORIZED
      [] e.kind = "InvalidToken" -> BAD_REQUEST
      [] e.kind = "MissingExpectedRole" -> UNAUTHORIZED
      [] e.kind = "UnexpectedRole" -> UNAUTHORIZED

\* A variant of ErrorMessage that names the role in every build.
ErrorMessageAlwaysNamesRole(e, debug) ==
    IF e.kind = "MissingExpectedRole"
    THEN <<"Missing expected role: ", e.role>>
    ELSE to_string(e)

\* into_response: the message of the match arm of each kind; debug is
\* cfg!(debug_assertions).
ErrorMessage(e, debug) ==
    IF e.kind = "MissingExpectedRole"
    THEN IF debug THEN <<"Missing expected role: ", e.role>>
                  ELSE <<"Missing expected role">>
    ELSE to_string(e)

\* impl IntoResponse for AuthError
into_response(e, debug) == Response(StatusOf(e), ErrorMessage(e, debug))

\* ------------------------------------------------- decode.rs: the header
AUTHORIZATION == "authorization"

\* "Bearer " as bytes.
BearerPrefix == <<66, 101, 97, 114, 101, 114, 32>>

\* HeaderMap::get: the first value stored under the name, if any.
get(h, name) ==
    IF \E i \in DOMAIN h : h[i].name = name
    THEN [some |-> TRUE,
          value |-> h[CHOOSE i \in DOMAIN h :
                        /\ h[i].name = name
                        /\ \A j \in DOMAIN h : h[j].name = name => i <= j].value]
    ELSE [some |-> FALSE, value |-> <<>>]

\* HeaderValue::to_str succeeds when every byte is visible ASCII (32..126) or a tab.
is_visible_ascii(b) == (b >= 32 /\ b < 127) \/ b = 9

to_str(v) == \A i \in DOMAIN v : is_visible_ascii(v[i])

\* str::strip_prefix: case-sensitive, byte for byte.
strip_prefix(s, p) ==
    IF Len(s) >= Len(p) /\ SubSeq(s, 1, Len(p)) = p
    THEN [some |-> TRUE, rest |-> SubSeq(s, Len(p) + 1, Len(s))]
    ELSE [some |-> FALSE, rest |-> <<>>]

Ok(v) == [ok |-> TRUE, value |-> v, err |-> NoErr]

Err(e, v) == [ok |-> FALSE, value |-> v, err |-> e]

\* The text of http's ToStrError.
ToStrError == "failed to convert header to a str"

\* A variant of parse_jwt_token that looks for the prefix before the text check.
parse_jwt_token_prefix_first(h) ==
    LET hv == get(h, AUTHORIZATION) IN
    IF ~hv.some THEN Err(AuthError("MissingAuthorizationHeader", <<>>, "", ""), <<>>)
    ELSE LET t == strip_prefix(hv.value, BearerPrefix) IN
         IF ~t.some THEN Err(AuthError("MissingBearerToken", <<>>, "", ""), <<>>)
         ELSE IF ~to_str(hv.value)
              THEN Err(AuthError("InvalidAuthorizationHeader", <<ToStrError>>, "", ""), <<>>)
         ELSE Ok(t.rest)

parse_jwt_token(h) ==
    LET hv == get(h, AUTHORIZATION) IN
    IF ~hv.some THEN Err(AuthError("MissingAuthorizationHeader", <<>>, "", ""), <<>>)
    ELSE IF ~to_str(hv.value)
         THEN Err(AuthError("InvalidAuthorizationHeader", <<ToStrError>>, "", ""), <<>>)
    ELSE LET t == strip_prefix(hv.value, BearerPrefix) IN
         IF ~t.some THEN Err(AuthError("MissingBearerToken", <<>>, "", ""), <<>>)
         ELSE Ok(t.rest)

\* ------------------------------------------------ decode.rs: timestamps
I64_MIN == <<-10, 776627963, 145224192>>
I64_MAX == <<9, 223372036, 854775807>>

\* The range of time::OffsetDateTime::from_unix_timestamp (years -9999 ..= 9999):
\* -377705116800 ..= 253402300799.
MinTimestamp == <<-1, 999999622, 294883200>>
MaxTimestamp == <<0, 253, 402300799>>

I64Lt(a, b) ==
    \/ a[1] < b[1]
    \/ a[1] = b[1] /\ a[2] < b[2]
    \/ a[1] = b[1] /\ a[2] = b[2] /\ a[3] < b[3]

OffsetDateTime(unix, nanos) == [unix |-> unix, nanos |-> nanos]

UNIX_EPOCH == OffsetDateTime(<<0, 0, 0>>, 0)

\* The text of time::error::ComponentRange for a timestamp.
ComponentRange == "timestamp must be in the range -377705116800..=253402300799"

from_unix_timestamp(ts) ==
    IF I64Lt(ts, MinTimestamp) \/ I64Lt(MaxTimestamp, ts)
    THEN [ok |-> FALSE, value |-> UNIX_EPOCH, err |-> ComponentRange]
    ELSE [ok |-> TRUE, value |-> OffsetDateTime(ts, 0), err |-> ""]

\* PartialOrd of OffsetDateTime: a > b, on the instants.
DateTimeGt(a, b) ==
    \/ I64Lt(b.unix, a.unix)
    \/ a.unix = b.unix /\ a.nanos > b.nanos

\* -------------------------------------------- decode.rs: StandardClaims
\* A serde_json::Value of a claim: absent, null, a string, a number, or an
\* array of scalar values.
Json(kind, s, n, a) == [kind |-> kind, s |-> s, n |-> n, a |-> a]

JAbsent == Json("absent", "", <<0, 0, 0>>, <<>>)
JNull == Json("null", "", <<0, 0, 0>>, <<>>)
JStr(s) == Json("string", s, <<0, 0, 0>>, <<>>)
JNum(n) == Json("number", "", n, <<>>)
JArr(a) == Json("array", "", <<0, 0, 0>>, a)

\* enum StringOrVecString
String(s) == [kind |-> "String", s |-> s, v |-> <<>>]
VecString(v) == [kind |-> "VecString", s |-> "", v |-> v]

\* A variant of de_StringOrVecString that unwraps a one-element list.
de_StringOrVecString_unwrap(j) ==
    IF j.kind = "string" THEN [ok |-> TRUE, value |-> String(j.s)]
    ELSE IF j.kind = "array" /\ \A i \in DOMAIN j.a : j.a[i].kind = "string"
         THEN [ok |-> TRUE,
               value |-> IF Len(j.a) = 1 THEN String(j.a[1].s)
                         ELSE VecString([i \in DOMAIN j.a |-> j.a[i].s])]
    ELSE [ok |-> FALSE, value |-> String("")]

\* #[serde(untagged)]: the first variant the value fits.
de_StringOrVecString(j) ==
    IF j.kind = "string" THEN [ok |-> TRUE, value |-> String(j.s)]
    ELSE IF j.kind = "array" /\ \A i \in DOMAIN j.a : j.a[i].kind = "string"
         THEN [ok |-> TRUE, value |-> VecString([i \in DOMAIN j.a |-> j.a[i].s])]
    ELSE [ok |-> FALSE, value |-> String("")]

\* Option<RealmAccess>, Option<ResourceAccess>
NoRealmAccess == [some |-> FALSE, roles |-> <<>>]
RealmAccess(roles) == [some |-> TRUE, roles |-> roles]
NoResourceAccess == [some |-> FALSE, map |-> <<>>]
ResourceAccess(map) == [some |-> TRUE, map |-> map]

StandardClaims(exp, iat, aud, realm_access, resource_access) ==
    [exp |-> exp, iat |-> iat, aud |-> aud,
     realm_access |-> realm_access, resource_access |-> resource_access]

NoClaims == StandardClaims(<<0, 0, 0>>, <<0, 0, 0>>, String(""), NoRealmAccess, NoResourceAccess)

\* The serde errors StandardClaims::deserialize can report for a claims map:
\* a value of the wrong type, met in the map's iteration order (any of them
\* may be met first); else the first missing required field, in declaration
\* order.
JsonParseErrors(raw) ==
    LET wrong == {f \in {"exp", "iat"} : raw[f].kind \notin {"absent", "number"}}
                 \cup {f \in {"aud"} : raw[f].kind # "absent" /\ ~de_StringOrVecString(raw[f]).ok}
        missing == <<"exp", "iat", "aud">>
        firstMissing == CHOOSE i \in 1..3 :
                            /\ raw[missing[i]].kind = "absent"
                            /\ \A j \in 1..(i - 1) : raw[missing[j]].kind # "absent"
    IN  IF wrong # {} THEN {"invalid " \o f : f \in wrong}
        ELSE IF \E i \in 1..3 : raw[missing[i]].kind = "absent"
             THEN {"missing field " \o missing[firstMissing]}
        ELSE {}

\* StandardClaims::parse, given the raw claims map.  The realm_access and
\* resource_access claims are carried in their typed form (both optional).
StandardClaims_parse(raw, source) ==
    IF JsonParseErrors(raw) # {}
    THEN Err(AuthError("JsonParse", <<>>, source, ""), NoClaims)
    ELSE Ok(StandardClaims(raw.exp.n, raw.iat.n, de_StringOrVecString(raw.aud).value,
                           raw.realm_access, raw.resource_access))

\* ----------------------------------------------------- roles (role.rs)
\* The application's role type R: Role.  Two instances are modelled: a
\* string newtype (every name is its own role) and an enum with a fallback
\* (every name but "admin" becomes Unknown).  A role value is written as its
\* Display text.
RoleImpls == {"String", "Enum"}

\* R: From<String>
RoleFrom(impl, name) ==
    IF impl = "String" THEN name
    ELSE IF name = "admin" THEN "Admin" ELSE "Unknown"

\* enum KeycloakRole<R>
Realm(r) == [kind |-> "Realm", client |-> "", role |-> r]
Client(c, r) == [kind |-> "Client", client |-> c, role |-> r]

\* KeycloakRole::role
role(kr) == kr.role

\* ------------------------------------------- decode.rs: role extraction
RECURSIVE SumLens(_, _)
SumLens(map, keys) ==
    IF keys = {} THEN 0
    ELSE LET k == CHOOSE k \in keys : TRUE
         IN  Len(map[k]) + SumLens(map, keys \ {k})

\* impl NumRoles for RealmAccess
num_roles_RealmAccess(ra) == Len(ra.roles)

\* impl NumRoles for ResourceAccess
num_roles_ResourceAccess(ra) == SumLens(ra.map, DOMAIN ra.map)

\* A variant of extract_roles_RealmAccess that skips a name already pushed.
RECURSIVE extract_roles_RealmAccess_dedup(_, _, _)
extract_roles_RealmAccess_dedup(impl, roles, target) ==
    IF roles = <<>> THEN target
    ELSE extract_roles_RealmAccess_dedup(impl, Tail(roles),
            IF \E i \in DOMAIN target : target[i] = Realm(RoleFrom(impl, Head(roles)))
            THEN target
            ELSE Append(target, Realm(RoleFrom(impl, Head(roles)))))

\* impl ExtractRoles for RealmAccess: one Realm entry per name, in order.
RECURSIVE extract_roles_RealmAccess(_, _, _)
extract_roles_RealmAccess(impl, roles, target) ==
    IF roles = <<>> THEN target
    ELSE extract_roles_RealmAccess(impl, Tail(roles),
                                   Append(target, Realm(RoleFrom(impl, Head(roles)))))

RECURSIVE extract_roles_Access(_, _, _, _)
extract_roles_Access(impl, res_name, roles, target) ==
    IF roles = <<>> THEN target
    ELSE extract_roles_Access(impl, res_name, Tail(roles),
                              Append(target, Client(res_name, RoleFrom(impl, Head(roles)))))

\* impl ExtractRoles for ResourceAccess.  order is the order in which the
\* HashMap's iterator yields the clients.
RECURSIVE extract_roles_ResourceAccess(_, _, _, _)
extract_roles_ResourceAccess(impl, map, order, target) ==
    IF order = <<>> THEN target
    ELSE extract_roles_ResourceAccess(impl, map, Tail(order),
             extract_roles_Access(impl, Head(order), map[Head(order)], target))

\* impl ExtractRoles for (Option<A>, Option<B>): the first, then the second.
extract_roles(impl, realm_access, resource_access, order, target) ==
    LET afterRealm == IF realm_access.some
                      THEN extract_roles_RealmAccess(impl, realm_access.roles, target)
                      ELSE target
    IN  IF resource_access.some
        THEN extract_roles_ResourceAccess(impl, resource_access.map, order, afterRealm)
        ELSE afterRealm

\* The orders a HashMap with these keys can be iterated in.
IterationOrders(keys) ==
    {o \in [1..Cardinality(keys) -> keys] : \A i, j \in DOMAIN o : i # j => o[i] # o[j]}

\* ---------------------------------------------- decode.rs: KeycloakToken
KeycloakToken(expires_at, issued_at, audience, roles) ==
    [expires_at |-> expires_at, issued_at |-> issued_at, audience |-> audience,
     roles |-> roles]

NoToken == KeycloakToken(UNIX_EPOCH, UNIX_EPOCH, String(""), <<>>)

\* A variant of KeycloakToken_parse that converts iat before exp.
KeycloakToken_parse_iat_first(raw, impl, order) ==
    LET exp == from_unix_timestamp(raw.exp)
        iat == from_unix_timestamp(raw.iat)
    IN  IF ~iat.ok
        THEN Err(AuthError("InvalidToken",
                           <<"Could not parse 'iat' (issued_at) field as unix timestamp: ", iat.err>>,
                           "", ""), NoToken)
        ELSE IF ~exp.ok
        THEN Err(AuthError("InvalidToken",
                           <<"Could not parse 'exp' (expires_at) field as unix timestamp: ", exp.err>>,
                           "", ""), NoToken)
        ELSE Ok(KeycloakToken(exp.value, iat.value, raw.aud,
                              extract_roles(impl, raw.realm_access, raw.resource_access,
                                            order, <<>>)))

\* KeycloakToken::parse
KeycloakToken_parse(raw, impl, order) ==
    LET exp == from_unix_timestamp(raw.exp)
        iat == from_unix_timestamp(raw.iat)
    IN  IF ~exp.ok
        THEN Err(AuthError("InvalidToken",
                           <<"Could not parse 'exp' (expires_at) field as unix timestamp: ", exp.err>>,
                           "", ""), NoToken)
        ELSE IF ~iat.ok
        THEN Err(AuthError("InvalidToken",
                           <<"Could not parse 'iat' (issued_at) field as unix timestamp: ", iat.err>>,
                           "", ""), NoToken)
        ELSE Ok(KeycloakToken(exp.value, iat.value, raw.aud,
                              extract_roles(impl, raw.realm_access, raw.resource_access,
                                            order, <<>>)))

\* A variant of is_expired that counts the instant of expiry as expired.
is_expired_at_expiry(tok, t) == ~DateTimeGt(tok.expires_at, t)

\* KeycloakToken::is_expired, t being OffsetDateTime::now_utc().
is_expired(tok, t) == DateTimeGt(t, tok.expires_at)

\* KeycloakToken::assert_not_expired
assert_not_expired(tok, t) ==
    IF is_expired(tok, t) THEN Err(AuthError("TokenExpired", <<>>, "", ""), FALSE)
    ELSE Ok(FALSE)

\* A variant of any_role that looks at realm roles only.
any_role_realm_only(tok, expected) ==
    \E i \in DOMAIN tok.roles : tok.roles[i].kind = "Realm" /\ role(tok.roles[i]) = expected

\* self.roles.iter().any(|role| role.role() == &expected)
any_role(tok, expected) == \E i \in DOMAIN tok.roles : role(tok.roles[i]) = expected

\* KeycloakToken::expect_roles
RECURSIVE expect_roles(_, _, _)
expect_roles(tok, impl, roles) ==
    IF roles = <<>> THEN Ok(FALSE)
    ELSE LET expected == RoleFrom(impl, Head(roles))
         IN  IF ~any_role(tok, expected)
             THEN Err(AuthError("MissingExpectedRole", <<>>, "", expected), FALSE)
             ELSE expect_roles(tok, impl, Tail(roles))

RECURSIVE contained_roles_loop(_, _, _, _)
contained_roles_loop(tok, impl, roles, current_role) ==
    IF roles = <<>>
    THEN Err(AuthError("MissingExpectedRole", <<>>, "", current_role), FALSE)
    ELSE LET expected == RoleFrom(impl, Head(roles))
         IN  IF any_role(tok, expected) THEN Ok(FALSE)
             ELSE contained_roles_loop(tok, impl, Tail(roles), expected)

\* A variant of contained_roles that names the first listed role.
contained_roles_names_first(tok, impl, roles) ==
    IF roles = <<>> THEN Ok(FALSE)
    ELSE IF \E i \in DOMAIN roles : any_role(tok, RoleFrom(impl, roles[i])) THEN Ok(FALSE)
    ELSE Err(AuthError("MissingExpectedRole", <<>>, "", RoleFrom(impl, roles[1])), FALSE)

\* KeycloakToken::contained_roles
contained_roles(tok, impl, roles) ==
    IF roles = <<>> THEN Ok(FALSE)
    ELSE contained_roles_loop(tok, impl, roles, "")

\* A variant of not_expect_roles that returns after the first listed role.
not_expect_roles_first_only(tok, impl, roles) ==
    IF roles = <<>> THEN Ok(FALSE)
    ELSE IF any_role(tok, RoleFrom(impl, Head(roles)))
         THEN Err(AuthError("UnexpectedRole", <<>>, "", ""), FALSE)
         ELSE Ok(FALSE)

\* KeycloakToken::not_expect_roles
RECURSIVE not_expect_roles(_, _, _)
not_expect_roles(tok, impl, roles) ==
    IF roles = <<>> THEN Ok(FALSE)
    ELSE LET expected == RoleFrom(impl, Head(roles))
         IN  IF any_role(tok, expected)
             THEN Err(AuthError("UnexpectedRole", <<>>, "", ""), FALSE)
             ELSE not_expect_roles(tok, impl, Tail(roles))

\* ------------------------------------------------------------- inputs
\* 'x', a tab, and the opaque byte 0xE9.
TokenBytes == {120, 9, 233}

\* "Bearer ", "bearer ", "Bearer", "Token " and nothing.
Prefixes == {BearerPrefix,
             <<98, 101, 97, 114, 101, 114, 32>>,
             <<66, 101, 97, 114, 101, 114>>,
             <<84, 111, 107, 101, 110, 32>>,
             <<>>}

HeaderValues == {p \o t : p \in Prefixes, t \in SeqsUpTo(TokenBytes, MaxTokenLen)}

HeaderEntries ==
    {[name |-> AUTHORIZATION, value |-> v] : v \in HeaderValues}
    \cup {[name |-> "accept", value |-> BearerPrefix \o <<120>>]}

HeaderMaps == SeqsUpTo(HeaderEntries, MaxHeaders)

T0 == <<0, 1, 700000000>>

I64Samples == {I64_MIN, <<-1, 999999622, 294883199>>, MinTimestamp, T0,
               MaxTimestamp, <<0, 253, 402300800>>, I64_MAX}

Nows == {OffsetDateTime(u, n) : u \in {<<0, 1, 699999999>>, T0, <<0, 1, 700000001>>},
                                n \in {0, 1, 999999999}}

AudNames == {"account", "api"}

AudJsons ==
    {JAbsent, JNull, JNum(T0), JArr(<<JNum(T0)>>)}
    \cup {JStr(a) : a \in AudNames}
    \cup {JArr([i \in DOMAIN l |-> JStr(l[i])]) : l \in SeqsUpTo(AudNames, MaxAud)}

TimeJsons == {JNum(v) : v \in I64Samples} \cup {JStr("soon"), JAbsent}

RoleNames == {"admin", "user"}

ArgNames == {"admin", "guest"}

Clients == {"svc", "web"}

RealmAccesses == {NoRealmAccess} \cup {RealmAccess(l) : l \in SeqsUpTo(RoleNames, MaxRoles)}

ResourceAccesses ==
    {NoResourceAccess}
    \cup {ResourceAccess(m) :
            m \in UNION {[D -> SeqsUpTo(RoleNames, MaxRoles)] : D \in SUBSET Clients}}

RawClaimsSet ==
    [exp : TimeJsons, iat : TimeJsons, aud : AudJsons,
     realm_access : {NoRealmAccess, RealmAccess(<<"admin">>)},
     resource_access : {ResourceAccess([c \in {"svc"} |-> <<"user">>])}]

NoRawClaims ==
    [exp |-> JAbsent, iat |-> JAbsent, aud |-> JAbsent,
     realm_access |-> NoRealmAccess, resource_access |-> NoResourceAccess]

\* jsonwebtoken's error kinds, as the source of a key or decode failure.
JwtErrors == {"InvalidToken", "InvalidSignature", "InvalidAudience",
              "ExpiredSignature", "InvalidAlgorithm"}

RoleTexts == {RoleFrom(impl, n) : impl \in RoleImpls, n \in RoleNames \cup ArgNames}

AuthErrors ==
    {AuthError(k, <<>>, "", "") :
        k \in {"MissingAuthorizationHeader", "MissingBearerToken", "TokenExpired",
               "UnexpectedRole"}}
    \cup {AuthError("InvalidAuthorizationHeader", <<ToStrError>>, "", "")}
    \cup {AuthError(k, <<>>, s, "") :
            k \in {"CreateDecodingKey", "DecodeHeader", "Decode"}, s \in JwtErrors}
    \cup {AuthError("JsonParse", <<>>, s, "") :
            s \in UNION {JsonParseErrors(raw) : raw \in RawClaimsSet}}
    \cup {KeycloakToken_parse(StandardClaims(e, i, String("account"), NoRealmAccess,
                                             NoResourceAccess), "String", <<>>).err :
            e \in {T0, I64_MAX}, i \in {I64_MIN}}
    \cup {AuthError("MissingExpectedRole", <<>>, "", r) : r \in RoleTexts}

NoCall == [op |-> "none", roles |-> <<>>]

\* ------------------------------------------------------------- actions
ParseJwtToken ==
    /\ pc = "headers"
    /\ LET r == parse_jwt_token(headers)
       IN  /\ raw_token' = r.value
           /\ err' = r.err
           /\ result' = IF r.ok THEN "Ok" ELSE "Err"
           /\ pc' = IF r.ok THEN "raw_token" ELSE "failed"
    /\ call' = [op |-> "parse_jwt_token", roles |-> <<>>]
    /\ UNCHANGED <<debug_assertions, role_impl, headers, raw_claims, claims, token,
                   now, response>>

StandardClaimsParse ==
    /\ pc = "raw_claims"
    /\ \E source \in (IF JsonParseErrors(raw_claims) = {} THEN {""}
                      ELSE JsonParseErrors(raw_claims)) :
          LET r == StandardClaims_parse(raw_claims, source)
          IN  /\ claims' = r.value
              /\ err' = r.err
              /\ result' = IF r.ok THEN "Ok" ELSE "Err"
              /\ pc' = IF r.ok THEN "claims" ELSE "failed"
    /\ call' = [op |-> "StandardClaims::parse", roles |-> <<>>]
    /\ UNCHANGED <<debug_assertions, role_impl, headers, raw_token, raw_claims, token,
                   now, response>>

KeycloakTokenParse ==
    /\ pc = "claims"
    /\ \E order \in IterationOrders(DOMAIN claims.resource_access.map) :
          LET r == KeycloakToken_parse(claims, role_impl, order)
          IN  /\ token' = r.value
              /\ err' = r.err
              /\ result' = IF r.ok THEN "Ok" ELSE "Err"
              /\ pc' = IF r.ok THEN "token" ELSE "failed"
    /\ call' = [op |-> "KeycloakToken::parse", roles |-> <<>>]
    /\ UNCHANGED <<debug_assertions, role_impl, headers, raw_token, raw_claims, claims,
                   now, response>>

IsExpired ==
    /\ pc = "token"
    /\ \E t \in Nows :
          /\ now' = t
          /\ result' = IF is_expired(token, t) THEN "true" ELSE "false"
    /\ pc' = "checked"
    /\ call' = [op |-> "is_expired", roles |-> <<>>]
    /\ UNCHANGED <<debug_assertions, role_impl, headers, raw_token, raw_claims, claims,
                   token, err, response>>

AssertNotExpired ==
    /\ pc = "token"
    /\ \E t \in Nows :
          LET r == assert_not_expired(token, t)
          IN  /\ now' = t
              /\ err' = r.err
              /\ result' = IF r.ok THEN "Ok" ELSE "Err"
              /\ pc' = IF r.ok THEN "checked" ELSE "failed"
    /\ call' = [op |-> "assert_not_expired", roles |-> <<>>]
    /\ UNCHANGED <<debug_assertions, role_impl, headers, raw_token, raw_claims, claims,
                   token, response>>

ExpectRoles ==
    /\ pc = "token"
    /\ \E roles \in SeqsUpTo(ArgNames, MaxArgs) :
          LET r == expect_roles(token, role_impl, roles)
          IN  /\ call' = [op |-> "expect_roles", roles |-> roles]
              /\ err' = r.err
              /\ result' = IF r.ok THEN "Ok" ELSE "Err"
              /\ pc' = IF r.ok THEN "checked" ELSE "failed"
    /\ UNCHANGED <<debug_assertions, role_impl, headers, raw_token, raw_claims, claims,
                   token, now, response>>

ContainedRoles ==
    /\ pc = "token"
    /\ \E roles \in SeqsUpTo(ArgNames, MaxArgs) :
          LET r == contained_roles(token, role_impl, roles)
          IN  /\ call' = [op |-> "contained_roles", roles |-> roles]
              /\ err' = r.err
              /\ result' = IF r.ok THEN "Ok" ELSE "Err"
              /\ pc' = IF r.ok THEN "checked" ELSE "failed"
    /\ UNCHANGED <<debug_assertions, role_impl, headers, raw_token, raw_claims, claims,
                   token, now, response>>

NotExpectRoles ==
    /\ pc = "token"
    /\ \E roles \in SeqsUpTo(ArgNames, MaxArgs) :
          LET r == not_expect_roles(token, role_impl, roles)
          IN  /\ call' = [op |-> "not_expect_roles", roles |-> roles]
              /\ err' = r.err
              /\ result' = IF r.ok THEN "Ok" ELSE "Err"
              /\ pc' = IF r.ok THEN "checked" ELSE "failed"
    /\ UNCHANGED <<debug_assertions, role_impl, headers, raw_token, raw_claims, claims,
                   token, now, response>>

IntoResponse ==
    /\ pc = "failed"
    /\ response' = into_response(err, debug_assertions)
    /\ pc' = "responded"
    /\ UNCHANGED <<debug_assertions, role_impl, headers, raw_token, raw_claims, claims,
                   token, now, call, result, err>>

\* ------------------------------------------------------ specifications
InitRest ==
    /\ raw_token = <<>>
    /\ token = NoToken
    /\ now = UNIX_EPOCH
    /\ call = NoCall
    /\ result = "None"
    /\ response = NoResponse

\* SpecHeader, SpecClaims and SpecRoles run a release build; the build only
\* matters to into_response, and SpecError runs both builds.

\* A request's headers arrive; the bearer token is extracted.
InitHeader ==
    /\ pc = "headers"
    /\ debug_assertions = FALSE
    /\ role_impl = "String"
    /\ headers \in HeaderMaps
    /\ raw_claims = NoRawClaims
    /\ claims = NoClaims
    /\ err = NoErr
    /\ InitRest

NextHeader == ParseJwtToken \/ IntoResponse

SpecHeader == InitHeader /\ [][NextHeader]_vars

\* A verified claims map is normalised, the token built and its expiry checked.
InitClaims ==
    /\ pc = "raw_claims"
    /\ debug_assertions = FALSE
    /\ role_impl = "String"
    /\ headers = <<>>
    /\ raw_claims \in RawClaimsSet
    /\ claims = NoClaims
    /\ err = NoErr
    /\ InitRest

NextClaims ==
    StandardClaimsParse \/ KeycloakTokenParse \/ IsExpired \/ AssertNotExpired
    \/ IntoResponse

SpecClaims == InitClaims /\ [][NextClaims]_vars

\* Standard claims with any roles become a token; a role check is made.
InitRoles ==
    /\ pc = "claims"
    /\ debug_assertions = FALSE
    /\ role_impl \in RoleImpls
    /\ headers = <<>>
    /\ raw_claims = NoRawClaims
    /\ claims \in {StandardClaims(T0, T0, String("account"), ra, rs) :
                     ra \in RealmAccesses, rs \in ResourceAccesses}
    /\ err = NoErr
    /\ InitRest

NextRoles ==
    KeycloakTokenParse \/ ExpectRoles \/ ContainedRoles \/ NotExpectRoles \/ IntoResponse

SpecRoles == InitRoles /\ [][NextRoles]_vars

\* Any error becomes a response.
InitError ==
    /\ pc = "failed"
    /\ debug_assertions \in BOOLEAN
    /\ role_impl = "String"
    /\ headers = <<>>
    /\ raw_claims = NoRawClaims
    /\ claims = NoClaims
    /\ err \in AuthErrors
    /\ InitRest

NextError == IntoResponse

SpecError == InitError /\ [][NextError]_vars

\* ------------------------------------------------------------ claims
\* The positions of the Authorization entries, and the value of the first.
AuthPositions == {i \in DOMAIN headers : headers[i].name = "authorization"}

FirstAuthValue ==
    headers[CHOOSE i \in AuthPositions : \A j \in AuthPositions : i <= j].value

\* C1: parse_jwt_token ends in exactly one of four outcomes, decided in this
\* order: no Authorization entry gives MissingAuthorizationHeader; a value
\* that is not text (a byte that is neither visible ASCII nor a tab) gives
\* InvalidAuthorizationHeader; text that does not begin with the bytes of
\* "Bearer " gives MissingBearerToken; otherwise the call succeeds and the
\* header value is "Bearer " followed by the returned token.
C1_ParseJwtTokenOutcomes ==
    call.op = "parse_jwt_token" =>
        IF AuthPositions = {}
        THEN result = "Err" /\ err.kind = "MissingAuthorizationHeader"
        ELSE IF \E i \in DOMAIN FirstAuthValue :
                    FirstAuthValue[i] \notin ((32..126) \cup {9})
        THEN result = "Err" /\ err.kind = "InvalidAuthorizationHeader"
        ELSE IF \/ Len(FirstAuthValue) < 7
                \/ \E i \in 1..7 : FirstAuthValue[i] # <<66, 101, 97, 114, 101, 114, 32>>[i]
        THEN result = "Err" /\ err.kind = "MissingBearerToken"
        ELSE /\ result = "Ok"
             /\ err = NoErr
             /\ FirstAuthValue = <<66, 101, 97, 114, 101, 114, 32>> \o raw_token

\* A header map whose Authorization value has the lower-case prefix and an
\* opaque byte: both later checks would reject it, the text check comes first.
C1_Witness ==
    /\ call.op = "parse_jwt_token"
    /\ AuthPositions # {}
    /\ Len(FirstAuthValue) = 8
    /\ FirstAuthValue[1] = 98
    /\ FirstAuthValue[8] = 233
    /\ err.kind = "InvalidAuthorizationHeader"

TokenBuilt ==
    \/ call.op \in {"is_expired", "assert_not_expired", "expect_roles", "contained_roles",
                    "not_expect_roles"}
    \/ call.op = "KeycloakToken::parse" /\ result = "Ok"

ClaimedRealmRoles == IF claims.realm_access.some THEN claims.realm_access.roles ELSE <<>>

ClaimedClients == IF claims.resource_access.some THEN DOMAIN claims.resource_access.map ELSE {}

\* C2: the role list of a parsed token is one Realm entry per realm role
\* name, in source order, followed by Client entries only: for each client
\* one entry per role name, in source order, the client's entries next to
\* each other.  Nothing is dropped, so the length is the number of realm
\* role names plus the number of role names of all clients.
C2_RoleListExhaustiveOrdered ==
    TokenBuilt =>
        LET rs == token.roles
            n == Len(ClaimedRealmRoles)
            map == claims.resource_access.map
            slots == UNION {{<<c, k>> : k \in 1..Len(map[c])} : c \in ClaimedClients}
        IN  /\ Len(rs) = n + Cardinality(slots)
            /\ Len(rs) = (IF claims.realm_access.some
                          THEN num_roles_RealmAccess(claims.realm_access) ELSE 0)
                         + (IF claims.resource_access.some
                            THEN num_roles_ResourceAccess(claims.resource_access) ELSE 0)
            /\ \A i \in 1..n : rs[i] = Realm(RoleFrom(role_impl, ClaimedRealmRoles[i]))
            /\ \A i \in (n + 1)..Len(rs) :
                   rs[i].kind = "Client" /\ rs[i].client \in ClaimedClients
            /\ \A c \in ClaimedClients :
                   LET at == {i \in (n + 1)..Len(rs) : rs[i].client = c}
                   IN  /\ Cardinality(at) = Len(map[c])
                       /\ \A i, j \in at : \A m \in i..j : m \in at
                       /\ \A i \in at :
                              rs[i] = Client(c, RoleFrom(role_impl,
                                                 map[c][Cardinality({j \in at : j <= i})]))

\* Realm roles and two clients, every list full and with a repeated name.
C2_Witness ==
    /\ TokenBuilt
    /\ call.op = "KeycloakToken::parse"
    /\ Len(ClaimedRealmRoles) = MaxRoles
    /\ ClaimedRealmRoles[1] = ClaimedRealmRoles[2]
    /\ ClaimedClients = Clients
    /\ Len(token.roles) = 3 * MaxRoles
    /\ token.roles[Len(token.roles)].client = "svc"

\* A listed name is present when some entry of the role list, of either
\* kind, holds the role the name converts to.
Present(name) ==
    \E i \in DOMAIN token.roles : token.roles[i].role = RoleFrom(role_impl, name)

OnlyAsClientRole(name) ==
    /\ Present(name)
    /\ \A i \in DOMAIN token.roles :
           token.roles[i].role = RoleFrom(role_impl, name) => token.roles[i].kind = "Client"

\* C3: expect_roles succeeds exactly when every listed role is present,
\* whatever the kind of the entry that holds it (so always for the empty
\* list); when it fails the error is MissingExpectedRole with the first
\* listed role that is absent.
C3_ExpectRoles ==
    call.op = "expect_roles" =>
        LET absent == {i \in DOMAIN call.roles : ~Present(call.roles[i])}
        IN  /\ result \in {"Ok", "Err"}
            /\ (result = "Ok") <=> (absent = {})
            /\ result = "Ok" => err = NoErr
            /\ call.roles = <<>> => result = "Ok"
            /\ absent # {} =>
                   err = AuthError("MissingExpectedRole", <<>>, "",
                             RoleFrom(role_impl,
                                 call.roles[CHOOSE i \in absent : \A j \in absent : i <= j]))

\* The first listed role is held by client entries only, the second is absent.
C3_Witness ==
    /\ call.op = "expect_roles"
    /\ Len(call.roles) = 2
    /\ OnlyAsClientRole(call.roles[1])
    /\ ~Present(call.roles[2])
    /\ result = "Err"

\* C4: contained_roles succeeds for the empty list; for a non-empty list it
\* succeeds exactly when some listed role is present; when none is, the
\* error is MissingExpectedRole with the last listed role.
C4_ContainedRoles ==
    call.op = "contained_roles" =>
        LET found == \E i \in DOMAIN call.roles : Present(call.roles[i])
        IN  /\ result \in {"Ok", "Err"}
            /\ call.roles = <<>> => result = "Ok"
            /\ call.roles # <<>> => ((result = "Ok") <=> found)
            /\ result = "Ok" => err = NoErr
            /\ (call.roles # <<>> /\ ~found) =>
                   err = AuthError("MissingExpectedRole", <<>>, "",
                             RoleFrom(role_impl, call.roles[Len(call.roles)]))

\* Two different roles are listed and neither is present.
C4_Witness ==
    /\ call.op = "contained_roles"
    /\ Len(call.roles) = 2
    /\ RoleFrom(role_impl, call.roles[1]) # RoleFrom(role_impl, call.roles[2])
    /\ token.roles # <<>>
    /\ result = "Err"

\* C5: not_expect_roles succeeds exactly when no listed role is present (so
\* for the empty list); otherwise the error is UnexpectedRole, which holds
\* no role name.
C5_NotExpectRoles ==
    call.op = "not_expect_roles" =>
        LET found == \E i \in DOMAIN call.roles : Present(call.roles[i])
        IN  /\ result \in {"Ok", "Err"}
            /\ (result = "Ok") <=> ~found
            /\ result = "Ok" => err = NoErr
            /\ found => err = AuthError("UnexpectedRole", <<>>, "", "")

\* Only the second listed role is present.
C5_Witness ==
    /\ call.op = "not_expect_roles"
    /\ Len(call.roles) = 2
    /\ ~Present(call.roles[1])
    /\ Present(call.roles[2])
    /\ result = "Err"

\* The instant a is strictly after the instant b: at the first of the four
\* components (three limbs of seconds, nanoseconds) where they differ, a's
\* is the larger.
StrictlyAfter(a, b) ==
    LET x == a.unix \o <<a.nanos>>
        y == b.unix \o <<b.nanos>>
    IN  \E k \in 1..4 : x[k] > y[k] /\ \A j \in 1..(k - 1) : x[j] = y[j]

\* C6: is_expired is true exactly when the current time is strictly after
\* expires_at (not when they are equal); assert_not_expired fails, with
\* TokenExpired, exactly then and succeeds otherwise.
C6_Expiry ==
    /\ call.op = "is_expired" =>
           /\ result \in {"true", "false"}
           /\ (result = "true") <=> StrictlyAfter(now, token.expires_at)
           /\ now = token.expires_at => result = "false"
    /\ call.op = "assert_not_expired" =>
           /\ result \in {"Ok", "Err"}
           /\ (result = "Err") <=> StrictlyAfter(now, token.expires_at)
           /\ result = "Err" => err = AuthError("TokenExpired", <<>>, "", "")
           /\ result = "Ok" => err = NoErr

\* The current time is the instant of expiry.
C6_Witness ==
    /\ call.op = "assert_not_expired"
    /\ now = token.expires_at
    /\ result = "Ok"

\* C7: every kind of error has the status of the table, and the body is an
\* object with the single key "error".
C7_StatusTable ==
    pc = "responded" =>
        /\ err.kind \in AuthErrorKinds
        /\ err.kind \in {"MissingAuthorizationHeader", "InvalidAuthorizationHeader",
                         "MissingBearerToken", "InvalidToken"} <=> response.status = 400
        /\ err.kind = "CreateDecodingKey" <=> response.status = 500
        /\ err.kind \in {"DecodeHeader", "Decode", "JsonParse", "TokenExpired",
                         "MissingExpectedRole", "UnexpectedRole"} <=> response.status = 401
        /\ DOMAIN response.body = {"error"}

\* An invalid token has been answered.
C7_Witness ==
    /\ pc = "responded"
    /\ err.kind = "InvalidToken"
    /\ response.status = 400

\* C8: in a release build the response to MissingExpectedRole is the same
\* for every role, with the text "Missing expected role"; in a debug build
\* the role follows the text; the error's display message does not hold the
\* role; the response to any other kind is the same in both builds.
C8_RoleRedaction ==
    pc = "responded" =>
        /\ (err.kind = "MissingExpectedRole" /\ ~debug_assertions) =>
               response = Response(401, <<"Missing expected role">>)
        /\ (err.kind = "MissingExpectedRole" /\ debug_assertions) =>
               response = Response(401, <<"Missing expected role: ", err.role>>)
        /\ err.kind = "MissingExpectedRole" => err.role \notin Range(to_string(err))
        /\ err.kind # "MissingExpectedRole" =>
               /\ response = into_response(err, TRUE)
               /\ response = into_response(err, FALSE)

\* A release build has answered a missing role.
C8_Witness ==
    /\ pc = "responded"
    /\ err.kind = "MissingExpectedRole"
    /\ err.role = "Admin"
    /\ ~debug_assertions
    /\ response.body.error = <<"Missing expected role">>

\* The timestamp is within -377705116800 ..= 253402300799.
Representable(ts) ==
    LET lo == <<-1, 999999622, 294883200>>
        hi == <<0, 253, 402300799>>
    IN  /\ ~\E k \in 1..3 : ts[k] < lo[k] /\ \A j \in 1..(k - 1) : ts[j] = lo[j]
        /\ ~\E k \in 1..3 : ts[k] > hi[k] /\ \A j \in 1..(k - 1) : ts[j] = hi[j]

\* C9: KeycloakToken::parse fails, with InvalidToken and no token, exactly
\* when exp or iat is not representable; the reason is about 'exp' whenever
\* exp is not representable, about 'iat' otherwise; when both are
\* representable it succeeds with expires_at and issued_at the instants of
\* exp and iat.
C9_TimestampRange ==
    call.op = "KeycloakToken::parse" =>
        /\ result \in {"Ok", "Err"}
        /\ (result = "Err") <=> (~Representable(claims.exp) \/ ~Representable(claims.iat))
        /\ result = "Err" =>
               /\ err.kind = "InvalidToken"
               /\ token = NoToken
               /\ err.reason[1] =
                      IF ~Representable(claims.exp)
                      THEN "Could not parse 'exp' (expires_at) field as unix timestamp: "
                      ELSE "Could not parse 'iat' (issued_at) field as unix timestamp: "
        /\ result = "Ok" =>
               /\ err = NoErr
               /\ token.expires_at = [unix |-> claims.exp, nanos |-> 0]
               /\ token.issued_at = [unix |-> claims.iat, nanos |-> 0]

\* Both timestamps are out of range, on opposite sides.
C9_Witness ==
    /\ call.op = "KeycloakToken::parse"
    /\ claims.exp = <<0, 253, 402300800>>
    /\ claims.iat = I64_MIN
    /\ result = "Err"

ClaimsBuilt ==
    /\ call.op # "none"
    /\ ~(call.op = "StandardClaims::parse" /\ result = "Err")

\* C10: an aud given as a string s becomes String(s) and an aud given as a
\* list becomes VecString of the same elements in the same order, also for
\* a list of one element; the token's audience is the claims' aud.
C10_AudienceShape ==
    /\ ClaimsBuilt =>
           /\ raw_claims.aud.kind \in {"string", "array"}
           /\ raw_claims.aud.kind = "string" =>
                  /\ claims.aud.kind = "String"
                  /\ claims.aud.s = raw_claims.aud.s
           /\ raw_claims.aud.kind = "array" =>
                  /\ claims.aud.kind = "VecString"
                  /\ Len(claims.aud.v) = Len(raw_claims.aud.a)
                  /\ \A i \in DOMAIN claims.aud.v : claims.aud.v[i] = raw_claims.aud.a[i].s
    /\ TokenBuilt =>
           /\ token.audience = claims.aud
           /\ (token.audience.kind = "String") <=> (raw_claims.aud.kind = "string")
           /\ \A s \in AudNames : token.audience = String(s) => token.audience # VecString(<<s>>)

\* A token built from an aud that is a list of one element.
C10_Witness ==
    /\ TokenBuilt
    /\ raw_claims.aud.kind = "array"
    /\ Len(raw_claims.aud.a) = 1
    /\ token.audience = VecString(<<"account">>)

====
